---- MODULE Spec2Model ----
(***************************************************************************)
(* Model of src/visualize_structures_3d.py: the type classifier guess_type *)
(* and the graph builder build_graph (two ast.walk traversals over one     *)
(* parsed file, accumulating an undirected networkx Graph).                *)
(*                                                                         *)
(* Syntax-tree nodes are records whose field t is the ast class name; the  *)
(* other fields are the ast fields of that class.  Keys of graph nodes are *)
(* the very strings the code formats, so two entities that format to the   *)
(* same text share one graph node, as in the code.                         *)
(***************************************************************************)
EXTENDS Integers, Sequences, FiniteSets, TLC

VARIABLES tree, todo, pc, G, var_types, gt_node, gt_result

vars == <<tree, todo, pc, G, var_types, gt_node, gt_result>>

(***************************************************************************)
(* Bound of the model: the number of top-level statements of the file.     *)
(***************************************************************************)
MaxStmts == 2

(***************************************************************************)
(* Constructors of syntax-tree nodes (what ast.parse produces).            *)
(***************************************************************************)
Name(id) == [t |-> "Name", id |-> id]
\* a constant: the Python type name of its value and its source text (repr)
Constant(pytype, text) == [t |-> "Constant", pytype |-> pytype, text |-> text]
Attribute(value, attr) == [t |-> "Attribute", value |-> value, attr |-> attr]
Call(func, args) == [t |-> "Call", func |-> func, args |-> args]
BinOp(left, right) == [t |-> "BinOp", left |-> left, right |-> right]
List(elts) == [t |-> "List", elts |-> elts]
Set(elts) == [t |-> "Set", elts |-> elts]
Tuple(elts) == [t |-> "Tuple", elts |-> elts]
Dict(keys, values) == [t |-> "Dict", keys |-> keys, values |-> values]
Assign(targets, value) == [t |-> "Assign", targets |-> targets, value |-> value]
\* an annotated assignment; hasvalue is FALSE for "name: T" (value is None)
AnnAssign(target, annotation, hasvalue, value) ==
    [t |-> "AnnAssign", target |-> target, annotation |-> annotation,
     hasvalue |-> hasvalue, value |-> value]
Expr(value) == [t |-> "Expr", value |-> value]
If(test, body) == [t |-> "If", test |-> test, body |-> body]
Pass == [t |-> "Pass"]
arg(name) == [t |-> "arg", arg |-> name]
arguments(args) == [t |-> "arguments", args |-> args]
FunctionDef(name, args, body) ==
    [t |-> "FunctionDef", name |-> name, args |-> args, body |-> body]
ClassDef(name, body) == [t |-> "ClassDef", name |-> name, body |-> body]
Module(body) == [t |-> "Module", body |-> body]

(***************************************************************************)
(* ast.iter_child_nodes: the child nodes in the order of the class's       *)
(* _fields.  expr_context and operator singletons (Load, Store, Add) are   *)
(* childless nodes no branch of build_graph matches; they are left out.    *)
(***************************************************************************)
Children(n) ==
    CASE n.t = "Module" -> n.body
      [] n.t = "ClassDef" -> n.body
      [] n.t = "FunctionDef" -> <<n.args>> \o n.body
      [] n.t = "arguments" -> n.args
      [] n.t = "If" -> <<n.test>> \o n.body
      [] n.t = "Assign" -> n.targets \o <<n.value>>
      [] n.t = "AnnAssign" ->
            <<n.target, n.annotation>> \o (IF n.hasvalue THEN <<n.value>> ELSE <<>>)
      [] n.t = "Expr" -> <<n.value>>
      [] n.t = "Call" -> <<n.func>> \o n.args
      [] n.t = "Attribute" -> <<n.value>>
      [] n.t = "BinOp" -> <<n.left, n.right>>
      [] n.t \in {"List", "Set", "Tuple"} -> n.elts
      [] n.t = "Dict" -> n.keys \o n.values
      [] OTHER -> <<>>

(***************************************************************************)
(* ast.unparse on the expression shapes that reach it (callees, dict keys, *)
(* annotations).  An attribute of an integer literal (int or bool value)   *)
(* is written with a space before the dot: 1 .real, True .real.            *)
(***************************************************************************)
RECURSIVE unparse(_)
RECURSIVE unparse_list(_, _)
unparse_list(es, i) ==
    IF i > Len(es) THEN ""
    ELSE (IF i > 1 THEN ", " ELSE "") \o unparse(es[i]) \o unparse_list(es, i + 1)
unparse(e) ==
    CASE e.t = "Name" -> e.id
      [] e.t = "Constant" -> e.text
      [] e.t = "Attribute" ->
            unparse(e.value)
            \o (IF e.value.t = "Constant" /\ e.value.pytype \in {"int", "bool"}
                THEN " " ELSE "")
            \o "." \o e.attr
      [] e.t = "Call" -> unparse(e.func) \o "(" \o unparse_list(e.args, 1) \o ")"

TYPE_COLOR ==
    [list |-> "rgb(0,150,255)", dict |-> "rgb(255,140,0)", set |-> "rgb(50,200,50)",
     tuple |-> "rgb(200,0,200)", class |-> "rgb(255,0,0)", function |-> "rgb(0,0,255)",
     int |-> "rgb(200,200,200)", str |-> "rgb(255,105,180)", float |-> "rgb(180,180,255)",
     bool |-> "rgb(150,150,150)", module |-> "rgb(0,0,0)", unknown |-> "rgb(120,120,120)"]

\* str.lower() on the identifiers of the model's inputs
LowerTable ==
    [list |-> "list", List |-> "list", LIST |-> "list", dict |-> "dict", Dict |-> "dict",
     set |-> "set", Set |-> "set", tuple |-> "tuple", Tuple |-> "tuple",
     int |-> "int", Int |-> "int", str |-> "str", float |-> "float", bool |-> "bool",
     Class |-> "class", Function |-> "function", Module |-> "module",
     Unknown |-> "unknown", unknown |-> "unknown",
     f |-> "f", g |-> "g", Foo |-> "foo", b |-> "b", A |-> "a", x |-> "x"]
lower(s) == LowerTable[s]

(***************************************************************************)
(* guess_type                                                              *)
(***************************************************************************)
\* variant: the callee identifier is compared without lower-casing it
guess_type_nolower(node) ==
    CASE node.t = "List" -> "list"
      [] node.t = "Dict" -> "dict"
      [] node.t = "Set" -> "set"
      [] node.t = "Tuple" -> "tuple"
      [] node.t = "Constant" ->
            IF node.pytype \in DOMAIN TYPE_COLOR THEN node.pytype ELSE "unknown"
      [] node.t = "Call" /\ node.func.t = "Name" ->
            IF node.func.id \in DOMAIN TYPE_COLOR THEN node.func.id ELSE "unknown"
      [] OTHER -> "unknown"
guess_type(node) ==
    CASE node.t = "List" -> "list"
      [] node.t = "Dict" -> "dict"
      [] node.t = "Set" -> "set"
      [] node.t = "Tuple" -> "tuple"
      [] node.t = "Constant" ->
            LET t == node.pytype
            IN  IF t \in DOMAIN TYPE_COLOR THEN t ELSE "unknown"
      [] node.t = "Call" /\ node.func.t = "Name" ->
            LET name == lower(node.func.id)
            IN  IF name \in DOMAIN TYPE_COLOR THEN name ELSE "unknown"
      [] OTHER -> "unknown"

(***************************************************************************)
(* The networkx Graph: node maps each key to its attribute dict, adj maps  *)
(* each unordered pair of keys to the relation attribute of its one edge.  *)
(* implicit records the keys that add_edge had to create because they were *)
(* no node yet (such a node has an empty attribute dict).                  *)
(***************************************************************************)
Absent == "<absent>"
NoAttrs == [kind |-> Absent, label |-> Absent]
EmptyGraph == [node |-> <<>>, adj |-> <<>>, implicit |-> {}]

has_node(g, n) == n \in DOMAIN g.node

\* Graph.add_node(n, kind=kind, label=label): creates n or updates its attributes
add_node(g, n, kind, label) ==
    [g EXCEPT !.node = [k \in DOMAIN g.node \cup {n} |->
                           IF k = n THEN [kind |-> kind, label |-> label]
                           ELSE g.node[k]]]

\* Graph.add_edge(u, v, relation=relation): missing endpoints are created without
\* attributes; an undirected simple graph keeps one edge per pair, whose
\* relation is overwritten
add_edge(g, u, v, relation) ==
    [node |-> [k \in DOMAIN g.node \cup {u, v} |->
                  IF k \in DOMAIN g.node THEN g.node[k] ELSE NoAttrs],
     adj |-> [p \in DOMAIN g.adj \cup {{u, v}} |->
                  IF p = {u, v} THEN relation ELSE g.adj[p]],
     implicit |-> g.implicit \cup ({u, v} \ DOMAIN g.node)]

\* dict item assignment var_types[k] = v
setitem(d, k, v) == [j \in DOMAIN d \cup {k} |-> IF j = k THEN v ELSE d[j]]

\* os.path.basename(py_path) of the file being analysed
module_name == "m.py"

\* f"{idx}" for the indices of the literals of the model's inputs
IdxText == <<"0", "1", "2", "3", "4", "5">>
str(idx) == IdxText[idx + 1]

(***************************************************************************)
(* Traversal 1, one operator per branch of the if/elif chain.              *)
(***************************************************************************)
\* lines 56-60: for body in node.body, from position i on
RECURSIVE LinkMethods(_, _, _)
LinkMethods(g, node, i) ==
    IF i > Len(node.body) THEN g
    ELSE LET body == node.body[i]
         IN  IF body.t = "FunctionDef"
             THEN LET fn_label == node.name \o "." \o body.name \o "()"
                      g1 == add_node(g, fn_label, "function", fn_label)
                      g2 == add_edge(g1, node.name, fn_label, "method")
                  IN  LinkMethods(g2, node, i + 1)
             ELSE LinkMethods(g, node, i + 1)

ClassDefBranch(g, node) ==
    LET g1 == add_node(g, node.name, "class", node.name)
        g2 == add_edge(g1, module_name, node.name, "contains")
    IN  LinkMethods(g2, node, 1)

FunctionDefBranch(g, node) ==
    LET fn_label == node.name \o "()"
        g1 == add_node(g, fn_label, "function", fn_label)
    IN  add_edge(g1, module_name, fn_label, "contains")

\* lines 68-72: for tgt in node.targets, from position i on
RECURSIVE AssignTargets(_, _, _, _)
AssignTargets(g, node, val_type, i) ==
    IF i > Len(node.targets) THEN g
    ELSE LET tgt == node.targets[i]
         IN  IF tgt.t = "Name"
             THEN LET g1 == add_node(g, tgt.id, val_type, tgt.id)
                      g2 == add_edge(g1, module_name, tgt.id, "var")
                  IN  AssignTargets(g2, node, val_type, i + 1)
             ELSE AssignTargets(g, node, val_type, i + 1)

AssignBranch(g, node) == AssignTargets(g, node, guess_type(node.value), 1)

RECURSIVE AssignVarTypes(_, _, _, _)
AssignVarTypes(vt, node, val_type, i) ==
    IF i > Len(node.targets) THEN vt
    ELSE AssignVarTypes(IF node.targets[i].t = "Name"
                        THEN setitem(vt, node.targets[i].id, val_type) ELSE vt,
                        node, val_type, i + 1)

\* lines 76-78: the kind of an annotated assignment
AnnKind(node) ==
    LET ann == unparse(node.annotation)
        val_type == IF node.hasvalue THEN guess_type(node.value) ELSE ann
    IN  IF val_type \in DOMAIN TYPE_COLOR THEN val_type
        ELSE IF ann \in DOMAIN TYPE_COLOR THEN ann ELSE "unknown"

AnnAssignBranch(g, node) ==
    IF node.target.t = "Name"
    THEN LET g1 == add_node(g, node.target.id, AnnKind(node), node.target.id)
         IN  add_edge(g1, module_name, node.target.id, "var")
    ELSE g

\* lines 84-88: the callee key; "" stands for None
CalleeKey(node) ==
    IF node.func.t = "Name" THEN node.func.id \o "()"
    ELSE IF node.func.t = "Attribute" THEN unparse(node.func) \o "()"
    ELSE ""

\* lines 93-95: for arg in node.args, from position i on
RECURSIVE LinkArgs(_, _, _, _)
LinkArgs(g, node, func_name, i) ==
    IF i > Len(node.args) THEN g
    ELSE LET a == node.args[i]
         IN  IF a.t = "Name" /\ has_node(g, a.id)
             THEN LinkArgs(add_edge(g, a.id, func_name, "arg"), node, func_name, i + 1)
             ELSE LinkArgs(g, node, func_name, i + 1)

\* variant: the callee is linked without the placeholder node being created
CallBranch_noplaceholder(g, node) ==
    LET func_name == CalleeKey(node)
    IN  IF func_name # ""
        THEN LinkArgs(add_edge(g, module_name, func_name, "calls"), node, func_name, 1)
        ELSE g

CallBranch(g, node) ==
    LET func_name == CalleeKey(node)
    IN  IF func_name # ""
        THEN LET g1 == IF ~has_node(g, func_name)
                       THEN add_node(g, func_name, "function", func_name) ELSE g
                 g2 == add_edge(g1, module_name, func_name, "calls")
             IN  LinkArgs(g2, node, func_name, 1)
        ELSE g

(***************************************************************************)
(* Traversal 2: expansion of container literals.                           *)
(***************************************************************************)
\* variant: the dict branch tags its edges with the sequence branch's relation
RECURSIVE DictItems_seqrelation(_, _, _, _)
DictItems_seqrelation(g, parent, value, j) ==
    IF j > Len(value.keys) \/ j > Len(value.values) THEN g
    ELSE LET k_label == unparse(value.keys[j])
             v_type == guess_type(value.values[j])
             child_name == parent \o "." \o k_label
             g1 == add_node(g, child_name, v_type, child_name)
             g2 == add_edge(g1, parent, child_name, "seq-item")
         IN  DictItems_seqrelation(g2, parent, value, j + 1)

\* lines 103-108: for k, v in zip(keys, values), from position j on
RECURSIVE DictItems(_, _, _, _)
DictItems(g, parent, value, j) ==
    IF j > Len(value.keys) \/ j > Len(value.values) THEN g
    ELSE LET k_label == unparse(value.keys[j])
             v_type == guess_type(value.values[j])
             child_name == parent \o "." \o k_label
             g1 == add_node(g, child_name, v_type, child_name)
             g2 == add_edge(g1, parent, child_name, "dict-item")
         IN  DictItems(g2, parent, value, j + 1)

\* variant: the indices are counted from 1
RECURSIVE SeqItems_from1(_, _, _, _)
SeqItems_from1(g, parent, value, j) ==
    IF j > Len(value.elts) THEN g
    ELSE LET v_type == guess_type(value.elts[j])
             child_name == parent \o "[" \o str(j) \o "]"
             g1 == add_node(g, child_name, v_type, child_name)
             g2 == add_edge(g1, parent, child_name, "seq-item")
         IN  SeqItems_from1(g2, parent, value, j + 1)

\* lines 113-117: for idx, elt in enumerate(elts); j is idx + 1
RECURSIVE SeqItems(_, _, _, _)
SeqItems(g, parent, value, j) ==
    IF j > Len(value.elts) THEN g
    ELSE LET v_type == guess_type(value.elts[j])
             child_name == parent \o "[" \o str(j - 1) \o "]"
             g1 == add_node(g, child_name, v_type, child_name)
             g2 == add_edge(g1, parent, child_name, "seq-item")
         IN  SeqItems(g2, parent, value, j + 1)

\* lines 100-102 and 110-112: for tgt in node.targets, from position i on
RECURSIVE ExpandTargets(_, _, _)
ExpandTargets(g, node, i) ==
    IF i > Len(node.targets) THEN g
    ELSE LET tgt == node.targets[i]
         IN  IF tgt.t = "Name"
             THEN ExpandTargets(IF node.value.t = "Dict"
                                THEN DictItems(g, tgt.id, node.value, 1)
                                ELSE SeqItems(g, tgt.id, node.value, 1),
                                node, i + 1)
             ELSE ExpandTargets(g, node, i + 1)

IsDictAssign(node) == node.t = "Assign" /\ node.value.t = "Dict"
IsSeqAssign(node) == node.t = "Assign" /\ node.value.t \in {"List", "Set", "Tuple"}

(***************************************************************************)
(* Inputs: the files analysed are the sequences of 1..MaxStmts top-level   *)
(* statements drawn from Stmts (each given with its source text).          *)
(***************************************************************************)
Int1 == Constant("int", "1")
\* x = 5
S_x_int == Assign(<<Name("x")>>, Constant("int", "5"))
\* x = [1, "a", 2.0]
S_x_list == Assign(<<Name("x")>>,
                   List(<<Int1, Constant("str", "'a'"), Constant("float", "2.0")>>))
\* x = {"a": 1}
S_x_dict == Assign(<<Name("x")>>, Dict(<<Constant("str", "'a'")>>, <<Int1>>))
\* y = x = (True, None)
S_yx_tuple == Assign(<<Name("y"), Name("x")>>,
                     Tuple(<<Constant("bool", "True"), Constant("NoneType", "None")>>))
\* A.b = y = {g(x), 1 + 1}
S_y_set == Assign(<<Attribute(Name("A"), "b"), Name("y")>>,
                  Set(<<Call(Name("g"), <<Name("x")>>), BinOp(Int1, Int1)>>))
\* if c:
\*     if c:
\*         x = "a"
S_if_if_x_str == If(Name("c"), <<If(Name("c"),
                      <<Assign(<<Name("x")>>, Constant("str", "'a'"))>>)>>)
\* f(x)
S_call_f_x == Expr(Call(Name("f"), <<Name("x")>>))
\* if c:
\*     def f(): pass
S_if_def_f == If(Name("c"), <<FunctionDef("f", arguments(<<>>), <<Pass>>)>>)
\* def b(): pass
S_def_b == FunctionDef("b", arguments(<<>>), <<Pass>>)
\* class A:
\*     x = 5
\*     def b(self): pass
S_class_A == ClassDef("A", <<Assign(<<Name("x")>>, Constant("int", "5")),
                             FunctionDef("b", arguments(<<arg("self")>>), <<Pass>>)>>)
\* A = A()
S_A_inst == Assign(<<Name("A")>>, Call(Name("A"), <<>>))
\* A.b(A)
S_call_A_b == Expr(Call(Attribute(Name("A"), "b"), <<Name("A")>>))
\* m = {py: 1}
S_m_dict == Assign(<<Name("m")>>, Dict(<<Name("py")>>, <<Int1>>))
\* x: int
S_x_ann == AnnAssign(Name("x"), Name("int"), FALSE, Pass)
\* x: Foo = List()
S_x_ann_val == AnnAssign(Name("x"), Name("Foo"), TRUE, Call(Name("List"), <<>>))
\* (1).real(x)
S_call_int_attr == Expr(Call(Attribute(Int1, "real"), <<Name("x")>>))
\* y = {True.real: 1.0.real}
S_y_dict_attr == Assign(<<Name("y")>>,
                        Dict(<<Attribute(Constant("bool", "True"), "real")>>,
                             <<Attribute(Constant("float", "1.0"), "real")>>))
\* f()()
S_call_call == Expr(Call(Call(Name("f"), <<>>), <<>>))

Stmts ==
    {S_x_int, S_x_list, S_x_dict, S_yx_tuple, S_y_set, S_if_if_x_str, S_call_f_x,
     S_if_def_f, S_def_b, S_class_A, S_A_inst, S_call_A_b, S_m_dict, S_x_ann,
     S_x_ann_val, S_call_call, S_call_int_attr, S_y_dict_attr}

Files == {Module(body) : body \in UNION {[1..n -> Stmts] : n \in 1..MaxStmts}}

(***************************************************************************)
(* build_graph as a state machine.  todo is the deque of ast.walk: each    *)
(* step pops its head, appends the head's children and runs the loop body  *)
(* on the head.                                                            *)
(***************************************************************************)
Init ==
    /\ tree \in Files
    /\ todo = <<tree>>
    /\ pc = "walk1"
    /\ G = add_node(EmptyGraph, module_name, "module", module_name)
    /\ var_types = <<>>
    /\ gt_node = Pass
    /\ gt_result = Absent

walk(q) == Tail(q) \o Children(Head(q))

Step1(type) ==
    /\ pc = "walk1"
    /\ todo # <<>>
    /\ Head(todo).t = type
    /\ todo' = walk(todo)
    /\ UNCHANGED <<tree, pc, gt_node, gt_result>>

T1ClassDef ==
    /\ Step1("ClassDef")
    /\ G' = ClassDefBranch(G, Head(todo))
    /\ UNCHANGED var_types

T1FunctionDef ==
    /\ Step1("FunctionDef")
    /\ G' = FunctionDefBranch(G, Head(todo))
    /\ UNCHANGED var_types

T1Assign ==
    /\ Step1("Assign")
    /\ G' = AssignBranch(G, Head(todo))
    /\ var_types' = AssignVarTypes(var_types, Head(todo), guess_type(Head(todo).value), 1)

T1AnnAssign ==
    /\ Step1("AnnAssign")
    /\ G' = AnnAssignBranch(G, Head(todo))
    /\ var_types' = IF Head(todo).target.t = "Name"
                    THEN setitem(var_types, Head(todo).target.id, AnnKind(Head(todo)))
                    ELSE var_types

T1Call ==
    /\ Step1("Call")
    /\ G' = CallBranch(G, Head(todo))
    /\ UNCHANGED var_types

\* a node no branch matches
T1Other ==
    /\ pc = "walk1"
    /\ todo # <<>>
    /\ Head(todo).t \notin {"ClassDef", "FunctionDef", "Assign", "AnnAssign", "Call"}
    /\ todo' = walk(todo)
    /\ UNCHANGED <<tree, pc, G, var_types, gt_node, gt_result>>

\* the first walk is exhausted; the second one starts at the root again
BeginTraversal2 ==
    /\ pc = "walk1"
    /\ todo = <<>>
    /\ pc' = "walk2"
    /\ todo' = <<tree>>
    /\ UNCHANGED <<tree, G, var_types, gt_node, gt_result>>

Step2 ==
    /\ pc = "walk2"
    /\ todo # <<>>
    /\ todo' = walk(todo)
    /\ UNCHANGED <<tree, pc, var_types, gt_node, gt_result>>

T2Dict ==
    /\ Step2
    /\ IsDictAssign(Head(todo))
    /\ G' = ExpandTargets(G, Head(todo), 1)

T2Seq ==
    /\ Step2
    /\ IsSeqAssign(Head(todo))
    /\ G' = ExpandTargets(G, Head(todo), 1)

T2Other ==
    /\ Step2
    /\ ~IsDictAssign(Head(todo))
    /\ ~IsSeqAssign(Head(todo))
    /\ UNCHANGED G

\* return G
Return ==
    /\ pc = "walk2"
    /\ todo = <<>>
    /\ pc' = "done"
    /\ UNCHANGED <<tree, todo, G, var_types, gt_node, gt_result>>

Next ==
    \/ T1ClassDef
    \/ T1FunctionDef
    \/ T1Assign
    \/ T1AnnAssign
    \/ T1Call
    \/ T1Other
    \/ BeginTraversal2
    \/ T2Dict
    \/ T2Seq
    \/ T2Other
    \/ Return

Spec == Init /\ [][Next]_vars

(***************************************************************************)
(* guess_type on its own: an expression is drawn and classified.           *)
(***************************************************************************)
GtAtoms ==
    {Constant(ty, "c") : ty \in {"int", "str", "float", "bool", "NoneType", "bytes",
                                 "complex", "ellipsis"}}
    \cup {Name("x"), BinOp(Int1, Int1), Attribute(Name("A"), "b")}
GtCalls ==
    {Call(Name(id), <<>>) : id \in DOMAIN LowerTable}
    \cup {Call(Name("List"), <<Name("x")>>), Call(Attribute(Name("A"), "list"), <<>>),
          Call(Call(Name("list"), <<>>), <<>>)}
GtContainers ==
    {List(<<>>), Set(<<Int1>>), Tuple(<<>>), Dict(<<>>, <<>>)}
    \cup {List(<<a>>) : a \in GtAtoms \cup GtCalls}
    \cup {Tuple(<<a, Int1>>) : a \in GtAtoms}
    \cup {Dict(<<Int1>>, <<a>>) : a \in GtAtoms}
GtInputs == GtAtoms \cup GtCalls \cup GtContainers

InitG ==
    /\ tree = Module(<<>>)
    /\ todo = <<>>
    /\ pc = "guess"
    /\ G = EmptyGraph
    /\ var_types = <<>>
    /\ gt_node \in GtInputs
    /\ gt_result = Absent

GuessType ==
    /\ pc = "guess"
    /\ gt_result' = guess_type(gt_node)
    /\ pc' = "guessed"
    /\ UNCHANGED <<tree, todo, G, var_types, gt_node>>

NextG == GuessType

SpecG == InitG /\ [][NextG]_vars

(***************************************************************************)
(* Vocabulary of the properties.                                           *)
(***************************************************************************)
\* the nodes of a file in source order (depth-first, fields in source order)
RECURSIVE PreOrder(_)
RECURSIVE PreOrderAll(_, _)
PreOrderAll(ns, i) ==
    IF i > Len(ns) THEN <<>> ELSE PreOrder(ns[i]) \o PreOrderAll(ns, i + 1)
PreOrder(n) == <<n>> \o PreOrderAll(Children(n), 1)

Source == PreOrder(tree)
Pos == 1..Len(Source)

\* the bare names a statement assigns
SimpleTargets(n) ==
    IF n.t = "Assign"
    THEN {n.targets[i].id : i \in {j \in 1..Len(n.targets) : n.targets[j].t = "Name"}}
    ELSE {}
AnnTargets(n) ==
    IF n.t = "AnnAssign" /\ n.target.t = "Name" THEN {n.target.id} ELSE {}
AssignedNames(n) == SimpleTargets(n) \cup AnnTargets(n)

\* positions of the simple assignments to a name, of all its assignments
SimplePos(v) == {i \in Pos : v \in SimpleTargets(Source[i])}
AssignPos(v) == {i \in Pos : v \in AssignedNames(Source[i])}
AllAssigned == UNION {AssignedNames(Source[i]) : i \in Pos}
Last(S) == CHOOSE i \in S : \A j \in S : j <= i

\* positions of the calls that get a callee key
CallPos == {i \in Pos : Source[i].t = "Call" /\ Source[i].func.t \in {"Name", "Attribute"}}
KeyOfCall(n) ==
    IF n.func.t = "Name" THEN n.func.id \o "()"
    ELSE unparse(n.func) \o "()"
NameArgs(n) == {n.args[i].id : i \in {j \in 1..Len(n.args) : n.args[j].t = "Name"}}

\* class definitions and the functions defined directly in their bodies
ClassPos == {i \in Pos : Source[i].t = "ClassDef"}
Methods(c) == {c.body[i].name : i \in {j \in 1..Len(c.body) : c.body[j].t = "FunctionDef"}}

Nodes == DOMAIN G.node
HasEdge(u, v, rel) == {u, v} \in DOMAIN G.adj /\ G.adj[{u, v}] = rel
KindIs(k, kind) == k \in Nodes /\ G.node[k].kind = kind

\* the nodes a path of edges links to the module node
RECURSIVE ReachFrom(_)
ReachFrom(S) ==
    LET T == S \cup {k \in Nodes : \E u \in S : {u, k} \in DOMAIN G.adj}
    IN  IF T = S THEN S ELSE ReachFrom(T)
Reachable == ReachFrom({module_name})

\* the neighbours a name is linked to by item edges
ItemChildren(P) ==
    {k \in Nodes : {P, k} \in DOMAIN G.adj /\ G.adj[{P, k}] \in {"seq-item", "dict-item"}}
SeqKeys(P, value) == {P \o "[" \o IdxText[i] \o "]" : i \in 1..Len(value.elts)}
DictKeys(P, value) == {P \o "." \o unparse(value.keys[i]) : i \in 1..Len(value.keys)}
SeqPos(P) == {i \in SimplePos(P) : Source[i].value.t \in {"List", "Set", "Tuple"}}
DictPos(P) == {i \in SimplePos(P) : Source[i].value.t = "Dict"}

Done == pc = "done"

Kinds ==
    {"list", "dict", "set", "tuple", "class", "function", "int", "str", "float", "bool",
     "module", "unknown"}

(***************************************************************************)
(* C1: the returned graph holds the module node, keyed by the file's base  *)
(* name and of kind module, and every other node is linked to it by a path *)
(* of edges.                                                               *)
(***************************************************************************)
C1_ModuleRoot ==
    Done => KindIs(module_name, "module") /\ Nodes \subseteq Reachable

(***************************************************************************)
(* C2: when a bare name is the target of two simple assignments (and of    *)
(* nothing else that writes its node), wherever they sit in the tree, the  *)
(* final kind of its node is the classification of the value assigned by   *)
(* the one that comes later in the source.                                 *)
(***************************************************************************)
C2_LastAssignmentWins ==
    Done =>
        \A v \in AllAssigned :
            (/\ Cardinality(SimplePos(v)) = 2
             /\ AssignPos(v) = SimplePos(v)
             /\ \A i \in ClassPos : Source[i].name # v)
            => KindIs(v, guess_type(Source[Last(SimplePos(v))].value))

(***************************************************************************)
(* C3 as claimed: when a name is assigned a list/set/tuple literal and     *)
(* later a dict literal, its item children are exactly the dict-item       *)
(* children of the dict literal; no x[i] child of the first literal is     *)
(* present.                                                                *)
(***************************************************************************)
SeqThenDict(P) ==
    /\ Cardinality(SimplePos(P)) = 2
    /\ AssignPos(P) = SimplePos(P)
    /\ \E i \in SeqPos(P) : \E j \in DictPos(P) : i < j

C3_OnlyLastLiteralChildren ==
    Done =>
        \A P \in AllAssigned :
            SeqThenDict(P) =>
                ItemChildren(P) = DictKeys(P, Source[Last(DictPos(P))].value)

(***************************************************************************)
(* C3 as amended: in that case the item children of the name are the       *)
(* dict-item children of the dict literal together with the x[i] seq-item  *)
(* children of the earlier literal, each linked by its own relation.       *)
(***************************************************************************)
C3_ChildrenOfBothLiterals ==
    Done =>
        \A P \in AllAssigned :
            SeqThenDict(P) =>
                LET seq == Source[Last(SeqPos(P))].value
                    dict == Source[Last(DictPos(P))].value
                IN  /\ ItemChildren(P) = SeqKeys(P, seq) \cup DictKeys(P, dict)
                    /\ \A k \in SeqKeys(P, seq) : HasEdge(P, k, "seq-item")
                    /\ \A k \in DictKeys(P, dict) : HasEdge(P, k, "dict-item")

C3_Witness ==
    /\ Done
    /\ tree.body = <<S_x_list, S_x_dict>>
    /\ KindIs("x", "dict")
    /\ HasEdge("x", "x.'a'", "dict-item")
    /\ HasEdge("x", "x[0]", "seq-item")

(***************************************************************************)
(* C4: a function defined directly in a class body, and nowhere else       *)
(* defined or called under that name, yields the node A.b() only: no node  *)
(* b() and no edge from the module to b().                                 *)
(***************************************************************************)
DefPos(b) == {i \in Pos : Source[i].t = "FunctionDef" /\ Source[i].name = b}

C4_MethodOnlyViaClass ==
    Done =>
        \A i \in ClassPos : \A b \in Methods(Source[i]) :
            (/\ Cardinality(DefPos(b)) = 1
             /\ \A j \in CallPos : KeyOfCall(Source[j]) # b \o "()")
            => /\ KindIs(Source[i].name \o "." \o b \o "()", "function")
               /\ b \o "()" \notin Nodes
               /\ {module_name, b \o "()"} \notin DOMAIN G.adj

(***************************************************************************)
(* C5: for every call with a callee key and a positional argument that is  *)
(* a bare name assigned earlier in the source, at whatever depth, the      *)
(* final graph has an arg edge between the name and the callee.            *)
(***************************************************************************)
C5_ArgEdge ==
    Done =>
        \A j \in CallPos : \A x \in NameArgs(Source[j]) :
            (\E i \in AssignPos(x) : i < j)
            => HasEdge(x, KeyOfCall(Source[j]), "arg")

(***************************************************************************)
(* C6: for every call whose callee is a bare identifier or an attribute    *)
(* expression the final graph holds the callee node, of kind function, and *)
(* an edge module - callee of relation calls, also when a function of that *)
(* name is defined in the file.                                            *)
(***************************************************************************)
C6_CalleeLinked ==
    Done =>
        \A j \in CallPos :
            /\ KindIs(KeyOfCall(Source[j]), "function")
            /\ HasEdge(module_name, KeyOfCall(Source[j]), "calls")

(***************************************************************************)
(* C7: at every point of both traversals no add_edge has created an        *)
(* endpoint: every node carries its kind and label.                        *)
(***************************************************************************)
C7_EndpointsExist ==
    /\ G.implicit = {}
    /\ \A k \in Nodes : G.node[k].kind \in Kinds /\ G.node[k].label = k

C7_Witness ==
    /\ Done
    /\ HasEdge("x", "f()", "arg")
    /\ HasEdge("x", "x[0]", "seq-item")

(***************************************************************************)
(* C8: for every class A with a function b defined directly in its body   *)
(* the final graph holds A (class), A.b() (function), the edge A - A.b()   *)
(* (method) and the edge module - A (contains), whatever else the file     *)
(* contains.                                                               *)
(***************************************************************************)
ClassShape(A, b) ==
    /\ KindIs(A, "class")
    /\ KindIs(A \o "." \o b \o "()", "function")
    /\ HasEdge(A, A \o "." \o b \o "()", "method")
    /\ HasEdge(module_name, A, "contains")

C8_ClassMethodAlways ==
    Done =>
        \A i \in ClassPos : \A b \in Methods(Source[i]) :
            ClassShape(Source[i].name, b)

(***************************************************************************)
(* C9: a list, set or tuple literal with n elements assigned to a bare     *)
(* name P that no other assignment targets yields, for every i in 0..n-1,  *)
(* the node P[i] of the kind guess_type gives element i, linked to P by a  *)
(* seq-item edge, and no node P[j] for j >= n.                             *)
(***************************************************************************)
C9_SeqExpansion ==
    Done =>
        \A p \in Pos : \A P \in SimpleTargets(Source[p]) :
            (/\ Source[p].value.t \in {"List", "Set", "Tuple"}
             /\ AssignPos(P) = {p})
            => LET elts == Source[p].value.elts
               IN  \A j \in 1..Len(IdxText) :
                      LET key == P \o "[" \o IdxText[j] \o "]"
                      IN  IF j <= Len(elts)
                          THEN /\ KindIs(key, guess_type(elts[j]))
                               /\ HasEdge(P, key, "seq-item")
                          ELSE key \notin Nodes

C9_Witness ==
    /\ Done
    /\ tree.body = <<S_x_list, S_call_f_x>>
    /\ KindIs("x[0]", "int")
    /\ KindIs("x[1]", "str")
    /\ KindIs("x[2]", "float")
    /\ HasEdge("x", "x[2]", "seq-item")
    /\ "x[3]" \notin Nodes

(***************************************************************************)
(* C10: guess_type returns one tag of the closed enumeration, by priority: *)
(* the container tag of a list/dict/set/tuple literal; for a constant the  *)
(* type name of its value if enumerated, else unknown; for a call of a     *)
(* bare identifier the lower-cased identifier if enumerated, else unknown; *)
(* unknown for every other expression.                                     *)
(***************************************************************************)
C10_GuessTypeRules ==
    pc = "guessed" =>
        /\ gt_result \in Kinds
        /\ gt_result =
              CASE gt_node.t = "List" -> "list"
                [] gt_node.t = "Dict" -> "dict"
                [] gt_node.t = "Set" -> "set"
                [] gt_node.t = "Tuple" -> "tuple"
                [] gt_node.t = "Constant" ->
                      IF gt_node.pytype \in Kinds THEN gt_node.pytype ELSE "unknown"
                [] gt_node.t = "Call" /\ gt_node.func.t = "Name" ->
                      IF LowerTable[gt_node.func.id] \in Kinds
                      THEN LowerTable[gt_node.func.id] ELSE "unknown"
                [] OTHER -> "unknown"

C10_Witness ==
    /\ pc = "guessed"
    /\ gt_node = Call(Name("List"), <<Name("x")>>)
    /\ gt_result = "list"

====
